---- MODULE Spec2Model ----
(***************************************************************************)
(* Model of src/app.py: the per-instrument pipeline of the scan loop       *)
(* (get_stock_history, calculate_indicators, ai_diagnosis, risk tier,      *)
(* advice, run_simple_backtest), with pandas/numpy float semantics (NaN,   *)
(* inf) made explicit.  Finite floats are modelled as exact rationals in   *)
(* lowest terms; rounding error is outside the model.                      *)
(*                                                                         *)
(* Strings of the source are written in ASCII:                             *)
(*   risk_level  "高" -> "High", "中" -> "Medium", "低" -> "Low"           *)
(*   advice      "观望" -> "Watch", "建议关注 (优质且未暴涨)" -> "Buy",    *)
(*               "持有/观察" -> "HoldWatch", "回避/卖出" -> "AvoidSell"    *)
(*   scores keys "估值" -> valuation, "趋势" -> trend, "资金" -> money,    *)
(*               "动量" -> momentum, "情绪" -> sentiment                   *)
(***************************************************************************)
EXTENDS Integers, Sequences, FiniteSets, TLC

(***************************************************************************)
(* Floating point values: NaN, +/-inf, or a rational n/d in lowest terms.  *)
(***************************************************************************)
RECURSIVE GCD(_, _)
GCD(a, b) == IF b = 0 THEN a ELSE GCD(b, a % b)

Abs(x) == IF x < 0 THEN -x ELSE x

Sign(x) == IF x > 0 THEN 1 ELSE IF x < 0 THEN -1 ELSE 0

NaN == [k |-> "nan", n |-> 0, d |-> 1]

Inf(s) == [k |-> "inf", n |-> s, d |-> 1]

\* n/d with d > 0, reduced
Num(n, d) ==
    LET g == GCD(Abs(n), d)
    IN  [k |-> "num", n |-> n \div g, d |-> d \div g]

F(i) == [k |-> "num", n |-> i, d |-> 1]

IsNaN(x) == x.k = "nan"

IsNum(x) == x.k = "num"

FNeg(a) ==
    IF a.k = "nan" THEN NaN ELSE [a EXCEPT !.n = -a.n]

FAdd(a, b) ==
    IF a.k = "nan" \/ b.k = "nan" THEN NaN
    ELSE IF a.k = "inf" THEN (IF b.k = "inf" /\ b.n # a.n THEN NaN ELSE a)
    ELSE IF b.k = "inf" THEN b
    ELSE Num(a.n * b.d + b.n * a.d, a.d * b.d)

FSub(a, b) == FAdd(a, FNeg(b))

FMul(a, b) ==
    IF a.k = "nan" \/ b.k = "nan" THEN NaN
    ELSE IF a.k = "inf" \/ b.k = "inf"
         THEN (IF a.n = 0 \/ b.n = 0 THEN NaN ELSE Inf(Sign(a.n) * Sign(b.n)))
    ELSE Num(a.n * b.n, a.d * b.d)

\* IEEE division as numpy performs it on float64 columns: x/0 is +/-inf,
\* 0/0 is NaN, x/inf is 0; nothing is raised.
FDiv(a, b) ==
    IF a.k = "nan" \/ b.k = "nan" THEN NaN
    ELSE IF b.k = "inf" THEN (IF a.k = "inf" THEN NaN ELSE F(0))
    ELSE IF b.n = 0 THEN (IF a.n = 0 THEN NaN ELSE Inf(Sign(a.n)))
    ELSE IF a.k = "inf" THEN Inf(a.n * Sign(b.n))
    ELSE Num(a.n * b.d * Sign(b.n), a.d * Abs(b.n))

\* comparisons with NaN are False
FLt(a, b) ==
    IF a.k = "nan" \/ b.k = "nan" THEN FALSE
    ELSE IF a.k = "inf" THEN a.n < 0 /\ ~(b.k = "inf" /\ b.n < 0)
    ELSE IF b.k = "inf" THEN b.n > 0
    ELSE a.n * b.d < b.n * a.d

FGt(a, b) == FLt(b, a)

FGe(a, b) ==
    IF a.k = "nan" \/ b.k = "nan" THEN FALSE ELSE ~FLt(a, b)

FLe(a, b) == FGe(b, a)

FAbs(a) ==
    IF a.k = "nan" THEN NaN ELSE [a EXCEPT !.n = Abs(a.n)]

\* Python's builtin min(a, b): b if b < a else a
PyMin(a, b) == IF FLt(b, a) THEN b ELSE a

(***************************************************************************)
(* Program constants                                                       *)
(***************************************************************************)
MA5Window == 5

MA20Window == 20

RSIWindow == 14

(***************************************************************************)
(* DataFrames: n rows, the set of column names, and the columns used by    *)
(* the pipeline (a column that is absent is the empty sequence).           *)
(***************************************************************************)
NoCols ==
    [MA5 |-> <<>>, MA20 |-> <<>>, RSI |-> <<>>, signal |-> <<>>,
     pct_change |-> <<>>, strategy_return |-> <<>>, cum_return |-> <<>>,
     benchmark |-> <<>>]

\* pd.DataFrame()
EmptyDataFrame == [n |-> 0, cols |-> {}, close |-> <<>>] @@ NoCols

\* the frame ak.stock_zh_a_hist returns, after the rename of its columns
HistFrame(series) ==
    [n |-> Len(series),
     cols |-> {"date", "open", "close", "high", "low", "volume"},
     close |-> series] @@ NoCols

\* DataFrame.empty
IsEmpty(df) == df.n = 0 \/ df.cols = {}

\* the outcome of a call: a value, or an exception raised
Ok(v) == [raised |-> FALSE, val |-> v]

Raise == [raised |-> TRUE, val |-> EmptyDataFrame]

(***************************************************************************)
(* 2. Data layer                                                           *)
(***************************************************************************)
\* get_stock_history without its try/except: the provider's exception escapes
get_stock_history_noexcept(failed, series) ==
    IF failed THEN Raise ELSE Ok(HistFrame(series))

\* get_stock_history: `failed` is the provider call (or the rename / date
\* conversion after it) raising; the bare except turns it into pd.DataFrame().
get_stock_history(failed, series) ==
    IF failed THEN Ok(EmptyDataFrame) ELSE Ok(HistFrame(series))

(***************************************************************************)
(* 3. Indicators                                                           *)
(***************************************************************************)
RECURSIVE Sum(_, _, _)
Sum(s, lo, hi) == IF lo > hi THEN 0 ELSE Sum(s, lo, hi - 1) + s[hi]

\* Series.rolling(w).mean() of a column without NaN: NaN until w
\* observations are in the window
RollingMean(s, w) ==
    [i \in 1..Len(s) |->
        IF i < w THEN NaN ELSE Num(Sum(s, i - w + 1, i), w)]

\* delta = df['close'].diff(); delta.where(delta > 0, 0): the delta where the
\* condition is True, else 0.  The first row's delta is NaN, the condition
\* is False there, and the row holds 0.
GainOf(close) ==
    [i \in 1..Len(close) |->
        IF i > 1 /\ close[i] - close[i - 1] > 0
        THEN close[i] - close[i - 1] ELSE 0]

\* -delta.where(delta < 0, 0)
LossOf(close) ==
    [i \in 1..Len(close) |->
        -(IF i > 1 /\ close[i] - close[i - 1] < 0
          THEN close[i] - close[i - 1] ELSE 0)]

\* gain and loss: the 14-row rolling means
AvgGain(df) == RollingMean(GainOf(df.close), RSIWindow)

AvgLoss(df) == RollingMean(LossOf(df.close), RSIWindow)

\* rs = gain / loss; RSI = 100 - (100 / (1 + rs))
RSIOf(gain, loss) ==
    [i \in 1..Len(gain) |->
        FSub(F(100), FDiv(F(100), FAdd(F(1), FDiv(gain[i], loss[i]))))]

\* The DIF/DEA/MACD columns (lines 74-78) are added to the frame as names
\* only: no modelled consumer reads them.
calculate_indicators(df) ==
    IF IsEmpty(df) THEN Ok(df)
    ELSE IF "close" \notin df.cols THEN Raise
    ELSE Ok([df EXCEPT
               !.MA5 = RollingMean(df.close, MA5Window),
               !.MA20 = RollingMean(df.close, MA20Window),
               !.RSI = RSIOf(AvgGain(df), AvgLoss(df)),
               !.cols = @ \cup {"MA5", "MA20", "DIF", "DEA", "MACD", "RSI"}])

(***************************************************************************)
(* Backtest                                                                *)
(***************************************************************************)
\* np.where(df['MA5'] > df['MA20'], 1, 0)
SignalOf(df) ==
    [i \in 1..df.n |-> IF FGt(df.MA5[i], df.MA20[i]) THEN 1 ELSE 0]

\* Series.pct_change()
PctChange(close) ==
    [i \in 1..Len(close) |->
        IF i = 1 THEN NaN ELSE FSub(FDiv(F(close[i]), F(close[i - 1])), F(1))]

\* shift(-1) instead of shift(1): the next row's signal, a look-ahead
SignalShiftedAhead(signal) ==
    [i \in 1..Len(signal) |->
        IF i = Len(signal) THEN NaN ELSE F(signal[i + 1])]

\* df['signal'].shift(1): the previous row's signal, NaN on the first row
SignalShifted(signal) ==
    [i \in 1..Len(signal) |-> IF i = 1 THEN NaN ELSE F(signal[i - 1])]

\* Series.cumprod() (skipna): a NaN row stays NaN and is skipped by the
\* running product.  CumProdUpTo(s, i) is <<rows 1..i, the running product>>
\* (prev and x are bound through singleton sets so that each is evaluated
\* once).
RECURSIVE CumProdUpTo(_, _)
CumProdUpTo(s, i) ==
    IF i = 0 THEN <<<<>>, F(1)>>
    ELSE CHOOSE r \in
           {IF IsNaN(x) THEN <<Append(prev[1], NaN), prev[2]>>
            ELSE <<Append(prev[1], FMul(prev[2], x)), FMul(prev[2], x)>> :
              prev \in {CumProdUpTo(s, i - 1)}, x \in {s[i]}} : TRUE

CumProd(s) == CumProdUpTo(s, Len(s))[1]

OnePlus(s) == [i \in 1..Len(s) |-> FAdd(F(1), s[i])]

\* (cum_return.iloc[-1] - 1) * 100 if not cum_return.isnull().all() else 0
TotalReturn(cum) ==
    IF \E i \in 1..Len(cum) : ~IsNaN(cum[i])
    THEN FMul(FSub(cum[Len(cum)], F(1)), F(100))
    ELSE F(0)

run_simple_backtest(df) ==
    IF IsEmpty(df) THEN Ok([ret |-> F(0), df |-> EmptyDataFrame])
    ELSE IF ~({"MA5", "MA20", "close"} \subseteq df.cols) THEN Raise
    ELSE LET signal == SignalOf(df)
             pct    == PctChange(df.close)
             lagged == SignalShifted(signal)
             strat  == [i \in 1..df.n |-> FMul(pct[i], lagged[i])]
         IN  CHOOSE r \in
               {Ok([ret |-> TotalReturn(cum),
                    df  |-> [df EXCEPT
                               !.signal = signal,
                               !.pct_change = pct,
                               !.strategy_return = strat,
                               !.cum_return = cum,
                               !.benchmark = CumProd(OnePlus(pct)),
                               !.cols = @ \cup {"signal", "pct_change",
                                                "strategy_return", "cum_return",
                                                "benchmark"}]]) :
                  cum \in {CumProd(OnePlus(strat))}} : TRUE

(***************************************************************************)
(* Diagnosis                                                               *)
(***************************************************************************)
\* scores['估值'] = 100 - min(pe, 100) if pe > 0 else 40
ValuationScore(pe) ==
    IF FGt(pe, F(0)) THEN FSub(F(100), PyMin(pe, F(100))) ELSE F(40)

\* trend_score of the last row: 50, +20 if close > MA20, +30 if MA5 > MA20
TrendScore(hist_df) ==
    LET last == hist_df.n
    IN  F(50 + (IF FGt(F(hist_df.close[last]), hist_df.MA20[last]) THEN 20 ELSE 0)
             + (IF FGt(hist_df.MA5[last], hist_df.MA20[last]) THEN 30 ELSE 0))

\* scores['资金'] = min(to * 10, 100)
MoneyScore(to) == PyMin(FMul(to, F(10)), F(100))

\* scores['动量'] = 100 - abs(50 - rsi) * 2
MomentumScore(rsi) == FSub(F(100), FMul(FAbs(FSub(F(50), rsi)), F(2)))

\* the sentiment score clamped to 100
SentimentClamped(pct) == PyMin(FAdd(F(50), FMul(pct, F(5))), F(100))

\* scores['情绪'] = 50 + pct * 5
SentimentScore(pct) == FAdd(F(50), FMul(pct, F(5)))

\* sum(scores.values()): 0 + each value, in insertion order
SumScores(scores) ==
    FAdd(FAdd(FAdd(FAdd(FAdd(F(0), scores.valuation), scores.trend),
                   scores.money), scores.momentum), scores.sentiment)

ai_diagnosis(row, hist_df) ==
    IF ~IsEmpty(hist_df) /\ ~({"close", "MA5", "MA20"} \subseteq hist_df.cols)
    THEN Raise
    ELSE
    CHOOSE r \in
      {Ok([score  |-> FDiv(SumScores(scores), F(5)), scores |-> scores]) :
         scores \in
           {[valuation |-> ValuationScore(row.pe),
             trend     |-> IF ~IsEmpty(hist_df) THEN TrendScore(hist_df) ELSE F(0),
             money     |-> MoneyScore(row.turnover),
             momentum  |-> IF ~IsEmpty(hist_df) /\ "RSI" \in hist_df.cols
                           THEN MomentumScore(hist_df.RSI[hist_df.n])
                           ELSE F(50),
             sentiment |-> SentimentScore(row.change_pct)]}} : TRUE

(***************************************************************************)
(* 4. The scan loop                                                        *)
(***************************************************************************)
\* the High tier cut at 50 instead of 40
RiskLevelShifted(s) ==
    IF FLt(s, F(50)) THEN "High" ELSE IF FLt(s, F(70)) THEN "Medium" ELSE "Low"

\* risk_level = "高" if score < 40 else ("中" if score < 70 else "低")
RiskLevel(s) ==
    IF FLt(s, F(40)) THEN "High" ELSE IF FLt(s, F(70)) THEN "Medium" ELSE "Low"

\* the score > 60 rule tested before the Buy rule
AdviceHoldFirst(s, change_pct) ==
    IF FGt(s, F(60)) THEN "HoldWatch"
    ELSE IF FGt(s, F(75)) /\ FLt(change_pct, F(5)) THEN "Buy"
    ELSE IF FLt(s, F(40)) THEN "AvoidSell"
    ELSE "Watch"

\* advice = "观望"; if score > 75 and change_pct < 5 ...; elif score > 60 ...;
\* elif score < 40 ...
Advice(s, change_pct) ==
    IF FGt(s, F(75)) /\ FLt(change_pct, F(5)) THEN "Buy"
    ELSE IF FGt(s, F(60)) THEN "HoldWatch"
    ELSE IF FLt(s, F(40)) THEN "AvoidSell"
    ELSE "Watch"

(***************************************************************************)
(* Signal classifier of spec.md 4.2 (no code under src/ implements it; the *)
(* model follows the specification's rule table).                          *)
(***************************************************************************)
\* an undefined (null) MA value; defined values are positive
Null == -1

\* prev.MA5 <= prev.MA10 AND curr.MA5 > curr.MA10
GoldenCross(prev, curr) == prev.MA5 <= prev.MA10 /\ curr.MA5 > curr.MA10

\* curr.MA5 > curr.MA10 > curr.MA20
BullishAlignment(curr) == curr.MA5 > curr.MA10 /\ curr.MA10 > curr.MA20

\* prev.MA5 >= prev.MA10 AND curr.MA5 < curr.MA10
DeathCross(prev, curr) == prev.MA5 >= prev.MA10 /\ curr.MA5 < curr.MA10

HasNull(prev, curr) ==
    Null \in {prev.MA5, prev.MA10, curr.MA5, curr.MA10, curr.MA20}

\* the alignment rule tested before the golden cross
classify_uptrend_first(prev, curr) ==
    IF HasNull(prev, curr) THEN "neutral"
    ELSE IF BullishAlignment(curr) THEN "uptrend"
    ELSE IF GoldenCross(prev, curr) THEN "bullish-crossover"
    ELSE IF DeathCross(prev, curr) THEN "bearish-crossover"
    ELSE "neutral"

\* ordered rules, first match wins; null MA values short-circuit to neutral
classify_signal(prev, curr) ==
    IF HasNull(prev, curr) THEN "neutral"
    ELSE IF GoldenCross(prev, curr) THEN "bullish-crossover"
    ELSE IF BullishAlignment(curr) THEN "uptrend"
    ELSE IF DeathCross(prev, curr) THEN "bearish-crossover"
    ELSE "neutral"

(***************************************************************************)
(* Inputs                                                                  *)
(***************************************************************************)
NumCandidates == 2

MaxBody == 21

MaxTail == 1

MaxTwinTail == 2

MaxMA == 3

BasePrice == 10

TailPrices == {9, 12}

Patterns == {"flat", "up", "zig"}

\* bar i of a pattern: flat, rising by one a bar, or alternating
PatternBar(p, i) ==
    IF p = "flat" THEN BasePrice
    ELSE IF p = "up" THEN BasePrice + i
    ELSE BasePrice + (i % 2)

RECURSIVE SeqsUpTo(_, _)
SeqsUpTo(S, len) ==
    IF len = 0 THEN {<<>>}
    ELSE LET shorter == SeqsUpTo(S, len - 1)
         IN  shorter \cup {Append(t, x) : t \in {u \in shorter : Len(u) = len - 1}, x \in S}

Tails == SeqsUpTo(TailPrices, MaxTail)

\* the continuations of a shared prefix in the paired backtest runs
TwinTails == SeqsUpTo(TailPrices, MaxTwinTail)

Body(p, b) == [i \in 1..b |-> PatternBar(p, i)]

\* the daily close series the provider can return: a pattern followed by
\* free bars
Histories ==
    {Body(p, b) \o t : p \in Patterns, b \in 0..MaxBody, t \in Tails}

\* quotes of df_final: pe within a selectable pe_range (0..200), numeric
Quotes ==
    [pe : {F(0), F(5), F(120)}, turnover : {F(0), F(12)},
     change_pct : {F(-3), F(5), F(12)}]

NoQuote == [pe |-> F(0), turnover |-> F(0), change_pct |-> F(0)]

NoScores ==
    [valuation |-> NaN, trend |-> NaN, money |-> NaN, momentum |-> NaN,
     sentiment |-> NaN]

\* indicator snapshots handed to the signal classifier
Snapshots == [MA5 : (1..MaxMA) \cup {Null}, MA10 : (1..MaxMA) \cup {Null},
              MA20 : (1..MaxMA) \cup {Null}]

NoSnapshot == [MA5 |-> Null, MA10 |-> Null, MA20 |-> Null]

VARIABLES
    pc,          \* position in the scan loop / in the run
    idx,         \* 1-based position of the current row of df_final
    row,         \* the current row of df_final
    hist_df, score, dimensions, risk_level, advice, ret, res_df,
    processed,   \* rows for which a score and an advice were produced
    fault,       \* an exception escaped the loop
    failed_rows, \* rows whose history fetch failed (history variable)
    twin_df, twin_ret,   \* a second backtest run, on a perturbed series
    prev, curr, verdict  \* the signal classifier's snapshots and result

scan == <<idx, row, score, dimensions, risk_level, advice, processed, fault,
          failed_rows>>

signalvars == <<prev, curr, verdict>>

vars == <<pc, idx, row, hist_df, score, dimensions, risk_level, advice,
          ret, res_df, processed, fault, failed_rows, twin_df, twin_ret,
          prev, curr, verdict>>

InitScan ==
    /\ idx = 0
    /\ row = NoQuote
    /\ score = NaN
    /\ dimensions = NoScores
    /\ risk_level = "none"
    /\ advice = "none"
    /\ processed = {}
    /\ fault = FALSE
    /\ failed_rows = {}

InitSignal ==
    /\ prev = NoSnapshot
    /\ curr = NoSnapshot
    /\ verdict = "none"

Init ==
    /\ pc = "iterate"
    /\ InitScan
    /\ hist_df = EmptyDataFrame
    /\ ret = NaN
    /\ res_df = EmptyDataFrame
    /\ twin_df = EmptyDataFrame
    /\ twin_ret = NaN
    /\ InitSignal

\* for idx, row in df_final.iterrows(): df_final holds at most NumCandidates
\* rows, sorted by change_pct, descending.  The locals of the finished
\* iteration are dead and are reset.
Iterate ==
    /\ pc = "iterate"
    /\ \/ /\ idx < NumCandidates
          /\ \E q \in Quotes :
               /\ idx > 0 => FLe(q.change_pct, row.change_pct)
               /\ row' = q
          /\ idx' = idx + 1
          /\ pc' = "fetch"
       \/ /\ pc' = "done"
          /\ UNCHANGED <<idx, row>>
    /\ hist_df' = EmptyDataFrame
    /\ score' = NaN
    /\ dimensions' = NoScores
    /\ risk_level' = "none"
    /\ advice' = "none"
    /\ ret' = NaN
    /\ res_df' = EmptyDataFrame
    /\ UNCHANGED <<processed, fault, failed_rows, twin_df, twin_ret, signalvars>>

\* hist_df = get_stock_history(row['symbol'])
Fetch ==
    /\ pc = "fetch"
    /\ \E failed \in BOOLEAN, series \in Histories :
         /\ failed_rows' = IF failed THEN failed_rows \cup {idx} ELSE failed_rows
         /\ \E r \in {get_stock_history(failed, series)} :
              IF r.raised
              THEN /\ fault' = TRUE
                   /\ pc' = "crashed"
                   /\ UNCHANGED hist_df
              ELSE /\ hist_df' = r.val
                   /\ pc' = "indicators"
                   /\ UNCHANGED fault
    /\ UNCHANGED <<idx, row, score, dimensions, risk_level, advice, ret,
                   res_df, processed, twin_df, twin_ret, signalvars>>

\* hist_df = calculate_indicators(hist_df)
Indicators ==
    /\ pc = "indicators"
    /\ \E r \in {calculate_indicators(hist_df)} :
           IF r.raised
           THEN /\ fault' = TRUE
                /\ pc' = "crashed"
                /\ UNCHANGED hist_df
           ELSE /\ hist_df' = r.val
                /\ pc' = "diagnose"
                /\ UNCHANGED fault
    /\ UNCHANGED <<idx, row, score, dimensions, risk_level, advice, ret,
                   res_df, processed, failed_rows, twin_df, twin_ret,
                   signalvars>>

\* score, dimensions = ai_diagnosis(row, hist_df)
Diagnose ==
    /\ pc = "diagnose"
    /\ \E r \in {ai_diagnosis(row, hist_df)} :
           IF r.raised
           THEN /\ fault' = TRUE
                /\ pc' = "crashed"
                /\ UNCHANGED <<score, dimensions>>
           ELSE /\ score' = r.val.score
                /\ dimensions' = r.val.scores
                /\ pc' = "advise"
                /\ UNCHANGED fault
    /\ UNCHANGED <<idx, row, hist_df, risk_level, advice, ret, res_df,
                   processed, failed_rows, twin_df, twin_ret,
                   signalvars>>

\* risk_level (line 217) and advice (lines 230-235)
Advise ==
    /\ pc = "advise"
    /\ risk_level' = RiskLevel(score)
    /\ advice' = Advice(score, row.change_pct)
    /\ processed' = processed \cup {idx}
    /\ pc' = "backtest"
    /\ UNCHANGED <<idx, row, hist_df, score, dimensions, ret, res_df,
                   fault, failed_rows, twin_df, twin_ret, signalvars>>

\* if not hist_df.empty: ret, res_df = run_simple_backtest(hist_df)
\* (the function adds its columns to hist_df in place and returns it)
Backtest ==
    /\ pc = "backtest"
    /\ IF ~IsEmpty(hist_df)
       THEN \E r \in {run_simple_backtest(hist_df)} :
                IF r.raised
                THEN /\ fault' = TRUE
                     /\ pc' = "crashed"
                     /\ UNCHANGED <<ret, res_df, hist_df>>
                ELSE /\ ret' = r.val.ret
                     /\ res_df' = r.val.df
                     /\ hist_df' = r.val.df
                     /\ pc' = "iterate"
                     /\ UNCHANGED fault
       ELSE /\ pc' = "iterate"
            /\ UNCHANGED <<ret, res_df, hist_df, fault>>
    /\ UNCHANGED <<idx, row, score, dimensions, risk_level, advice,
                   processed, failed_rows, twin_df, twin_ret,
                   signalvars>>

Next == Iterate \/ Fetch \/ Indicators \/ Diagnose \/ Advise \/ Backtest

Spec == Init /\ [][Next]_vars

(***************************************************************************)
(* Two backtest runs on series that share a prefix: hist_df holds a series *)
(* and twin_df the same body with another continuation.                    *)
(***************************************************************************)
InitTwin ==
    /\ pc = "twin_indicators"
    /\ InitScan
    /\ InitSignal
    /\ \E p \in Patterns, b \in 1..MaxBody, t \in TwinTails, u \in TwinTails :
         /\ hist_df = HistFrame(Body(p, b) \o t)
         /\ twin_df = HistFrame(Body(p, b) \o u)
    /\ ret = NaN
    /\ twin_ret = NaN
    /\ res_df = EmptyDataFrame

TwinIndicators ==
    /\ pc = "twin_indicators"
    /\ hist_df' = calculate_indicators(hist_df).val
    /\ twin_df' = calculate_indicators(twin_df).val
    /\ pc' = "twin_backtest"
    /\ UNCHANGED <<scan, ret, res_df, twin_ret, signalvars>>

TwinBacktest ==
    /\ pc = "twin_backtest"
    /\ \E r \in {run_simple_backtest(hist_df)}, t \in {run_simple_backtest(twin_df)} :
         /\ ret' = r.val.ret
         /\ res_df' = r.val.df
         /\ hist_df' = r.val.df
         /\ twin_ret' = t.val.ret
         /\ twin_df' = t.val.df
    /\ pc' = "twin_done"
    /\ UNCHANGED <<scan, signalvars>>

NextTwin == TwinIndicators \/ TwinBacktest

SpecBacktest == InitTwin /\ [][NextTwin]_vars

(***************************************************************************)
(* The signal classifier applied bar after bar                             *)
(***************************************************************************)
InitClassifier ==
    /\ pc = "classify"
    /\ InitScan
    /\ hist_df = EmptyDataFrame
    /\ ret = NaN
    /\ res_df = EmptyDataFrame
    /\ twin_df = EmptyDataFrame
    /\ twin_ret = NaN
    /\ prev = NoSnapshot
    /\ curr \in Snapshots
    /\ verdict = "none"

Classify ==
    /\ pc = "classify"
    /\ verdict' = classify_signal(prev, curr)
    /\ pc' = "classified"
    /\ UNCHANGED <<scan, hist_df, ret, res_df, twin_df, twin_ret, prev, curr>>

NextBar ==
    /\ pc = "classified"
    /\ prev' = curr
    /\ curr' \in Snapshots
    /\ verdict' = "none"
    /\ pc' = "classify"
    /\ UNCHANGED <<scan, hist_df, ret, res_df, twin_df, twin_ret>>

NextClassifier == Classify \/ NextBar

SpecClassifier == InitClassifier /\ [][NextClassifier]_vars

(***************************************************************************)
(* Properties                                                              *)
(***************************************************************************)
\* the pipeline of the current row has run to its end (locals not yet reset)
RowFinished == pc = "iterate" /\ idx > 0

Min(a, b) == IF a < b THEN a ELSE b

\* both runs' close series agree on rows 1..c
AgreeUpTo(c) ==
    /\ c <= hist_df.n
    /\ c <= twin_df.n
    /\ \A j \in 1..c : hist_df.close[j] = twin_df.close[j]

\* the position the claim prescribes for row i: the signal of row i - 1,
\* read off the indicator columns
LaggedPosition(df, i) ==
    IF FGt(df.MA5[i - 1], df.MA20[i - 1]) THEN F(1) ELSE F(0)

\* C1: run_simple_backtest has no look-ahead.  In every run the strategy
\* return of row i is the close-to-close change of row i times the signal
\* of row i - 1, and two runs whose close series agree on rows 1..c have the
\* same cum_return on rows 1..c, whatever follows row c.
C1_NoLookAhead ==
    pc = "twin_done" =>
        /\ \A i \in 2..res_df.n :
             res_df.strategy_return[i] =
                 FMul(FSub(FDiv(F(res_df.close[i]), F(res_df.close[i - 1])), F(1)),
                      LaggedPosition(res_df, i))
        /\ \A c \in 1..Min(res_df.n, twin_df.n) :
             AgreeUpTo(c) =>
                 \A j \in 1..c : res_df.cum_return[j] = twin_df.cum_return[j]

\* C1 witness: two finished runs that agree on a prefix in which the
\* strategy was invested (cum_return has left 1), differ after it, and end
\* with different total returns.
C1_Witness ==
    /\ pc = "twin_done"
    /\ ret # twin_ret
    /\ \E c \in 1..Min(res_df.n, twin_df.n) :
         /\ AgreeUpTo(c)
         /\ res_df.close # twin_df.close
         /\ IsNum(res_df.cum_return[c])
         /\ res_df.cum_return[c] # F(1)

\* C2: for a history shorter than 20 bars (the empty one included) the
\* pipeline emits no numeric composite score and the advice is Watch.
C2_InsufficientData ==
    (RowFinished /\ hist_df.n < MA20Window) =>
        /\ ~IsNum(score)
        /\ advice = "Watch"

\* C3: the advice follows the ordered threshold rules, first match wins:
\* score > 75 and change_pct < 5 gives Buy; otherwise score > 60 gives
\* Hold/Watch; otherwise score < 40 gives Avoid/Sell; otherwise Watch.  A
\* score > 75 with change_pct >= 5 gives Hold/Watch; one action is always
\* produced.
C3_AdviceRules ==
    pc = "backtest" =>
        LET buy  == FGt(score, F(75)) /\ FLt(row.change_pct, F(5))
            hold == ~buy /\ FGt(score, F(60))
            sell == ~buy /\ ~hold /\ FLt(score, F(40))
        IN  /\ advice \in {"Buy", "HoldWatch", "AvoidSell", "Watch"}
            /\ buy <=> advice = "Buy"
            /\ hold <=> advice = "HoldWatch"
            /\ sell <=> advice = "AvoidSell"
            /\ (~buy /\ ~hold /\ ~sell) <=> advice = "Watch"
            /\ (FGt(score, F(75)) /\ FGe(row.change_pct, F(5)))
                   => advice = "HoldWatch"

\* C3 witness: a score above 75 on a day that rose 5% or more is advised
\* Hold/Watch.
C3_Witness ==
    /\ pc = "backtest"
    /\ FGt(score, F(75))
    /\ FGe(row.change_pct, F(5))
    /\ advice = "HoldWatch"

\* C4: no exception escapes the scan loop, whatever fetch fails; a row whose
\* fetch failed is carried through indicators, diagnosis and the backtest
\* step with an empty history, and when the loop ends every row has a score
\* and an advice.
C4_BatchNeverFaults ==
    /\ ~fault
    /\ pc # "crashed"
    /\ (idx \in failed_rows /\ pc \in {"indicators", "diagnose", "advise", "backtest"})
           => IsEmpty(hist_df)
    /\ RowFinished => (idx \in processed /\ advice # "none" /\ risk_level # "none")
    /\ pc = "done" => processed = 1..idx

\* C4 witness: the loop has ended, an earlier row's fetch had failed, and
\* the rows after it were processed.
C4_Witness ==
    /\ pc = "done"
    /\ idx >= 2
    /\ 1 \in failed_rows
    /\ processed = 1..idx

\* a fall of the close inside the 14-row window that ends at row i
HasLoss(close, i) ==
    \E j \in (i - RSIWindow + 1)..i : j > 1 /\ close[j] < close[j - 1]

\* C5: once 14 deltas are available, RSI is within [0,100] when the window
\* holds a loss and is exactly 100 when it holds none (a flat window
\* included); it is never undefined.
C5_RSIRange ==
    pc = "diagnose" =>
        \A i \in (RSIWindow + 1)..hist_df.n :
            IF HasLoss(hist_df.close, i)
            THEN FGe(hist_df.RSI[i], F(0)) /\ FLe(hist_df.RSI[i], F(100))
            ELSE hist_df.RSI[i] = F(100)

\* C6: for a series of fewer than 2 bars run_simple_backtest returns
\* total_return 0 and an equity curve of length 1 whose value is 1.
C6_SingleBar ==
    (RowFinished /\ ~IsEmpty(hist_df) /\ hist_df.n < 2) =>
        /\ ret = F(0)
        /\ Len(res_df.cum_return) = 1
        /\ res_df.cum_return[1] = F(1)

\* C7: the composite score is the unweighted mean of exactly the five factor
\* scores; the sentiment factor is 50 + 5 * change_pct without clamping
\* (12 gives 110, -3 gives 35) and the valuation factor is 40 when pe <= 0.
C7_CompositeMean ==
    pc = "advise" =>
        /\ DOMAIN dimensions =
               {"valuation", "trend", "money", "momentum", "sentiment"}
        /\ FMul(score, F(5)) =
               FAdd(dimensions.sentiment,
                    FAdd(dimensions.momentum,
                         FAdd(dimensions.money,
                              FAdd(dimensions.trend, dimensions.valuation))))
        /\ dimensions.sentiment = FAdd(F(50), FMul(F(5), row.change_pct))
        /\ row.change_pct = F(12) => dimensions.sentiment = F(110)
        /\ row.change_pct = F(-3) => dimensions.sentiment = F(35)
        /\ FLe(row.pe, F(0)) => dimensions.valuation = F(40)

\* C7 witness: a diagnosis whose sentiment factor is 110 and whose composite
\* has left [0,100].
C7_Witness ==
    /\ pc = "advise"
    /\ dimensions.sentiment = F(110)
    /\ FGt(score, F(100))

\* C8: the classifier's rules are ordered, first match wins: a golden cross
\* and a death cross never hold together, a golden cross is reported as the
\* crossover even when the alignment MA5 > MA10 > MA20 holds too, a death
\* cross is reported as the crossover, and a null MA value gives neutral.
C8_ClassifierPriority ==
    pc = "classified" =>
        LET null   == \/ prev.MA5 = Null \/ prev.MA10 = Null
                      \/ curr.MA5 = Null \/ curr.MA10 = Null \/ curr.MA20 = Null
            golden == ~null /\ prev.MA5 <= prev.MA10 /\ curr.MA5 > curr.MA10
            death  == ~null /\ prev.MA5 >= prev.MA10 /\ curr.MA5 < curr.MA10
        IN  /\ ~(golden /\ death)
            /\ golden <=> verdict = "bullish-crossover"
            /\ death <=> verdict = "bearish-crossover"
            /\ null => verdict = "neutral"
            /\ verdict \in {"bullish-crossover", "uptrend", "bearish-crossover",
                            "neutral"}

\* C8 witness: a golden cross and the bullish alignment hold in the same
\* evaluation and the verdict is the crossover.
C8_Witness ==
    /\ pc = "classified"
    /\ Null \notin {prev.MA5, prev.MA10, curr.MA5, curr.MA10, curr.MA20}
    /\ prev.MA5 <= prev.MA10
    /\ curr.MA5 > curr.MA10
    /\ curr.MA10 > curr.MA20
    /\ verdict = "bullish-crossover"

\* C9: for a non-empty history whose last bar has a null MA5 or MA20 the
\* trend factor is 0, and whose last bar has a null RSI the momentum factor
\* is 50.
C9_NullIndicators ==
    (pc = "advise" /\ ~IsEmpty(hist_df)) =>
        /\ (IsNaN(hist_df.MA5[hist_df.n]) \/ IsNaN(hist_df.MA20[hist_df.n]))
               => dimensions.trend = F(0)
        /\ IsNaN(hist_df.RSI[hist_df.n]) => dimensions.momentum = F(50)

\* C10: risk tier and advice agree: the advice is Avoid/Sell exactly when
\* the tier is High (score < 40), Buy is advised only in the Low tier
\* (score >= 70), and a Medium row is advised Hold/Watch or Watch.
C10_RiskAdviceConsistent ==
    pc = "backtest" =>
        /\ risk_level = "High" <=> FLt(score, F(40))
        /\ advice = "AvoidSell" <=> risk_level = "High"
        /\ advice = "Buy" => (risk_level = "Low" /\ FGe(score, F(70)))
        /\ risk_level = "Medium" => advice \in {"HoldWatch", "Watch"}

\* C10 witness: a Medium row advised Hold/Watch.
C10_Witness ==
    /\ pc = "backtest"
    /\ risk_level = "Medium"
    /\ advice = "HoldWatch"

====
